---------------------------- MODULE Spec2Model ----------------------------
(***************************************************************************)
(* A model of the teaching scripts of this repository:                     *)
(*   - src/test.py          RandomDataGenerator (numbers, passwords,       *)
(*                          Fibonacci, event log, blockchain audit trail)  *)
(*   - src/random_gen.py    generate_random_with_seed                      *)
(*   - src/randomnum.py     generate_random_number                         *)
(*   - src/pure_python_nn.py, src/neural_network_simple_demo.py            *)
(*                          the two backpropagation training loops         *)
(* Each part has its own specification over the shared variables; the      *)
(* variables a specification does not use keep their initial value.        *)
(***************************************************************************)
EXTENDS Integers, Sequences, FiniteSets

VARIABLES
    \* RandomDataGenerator.fibonacci (src/test.py:73-84)
    fib_pc,            \* "idle" | "loop" | "done": position in fibonacci
    fib_n,             \* the argument n
    sequence,          \* the local list `sequence`
    fib_ret,           \* the list returned
    \* the process-wide generator of Python's `random` module, and the
    \* RandomDataGenerator instances living in that process
    rng,               \* state of the module-level generator of `random`
    constructed,       \* the instances whose __init__ has run
    generated_count,   \* self.generated_count of each instance
    ret,               \* the last call: what was called and what it returned
    calls,             \* number of calls made so far
    \* history of the run, kept beside the program's state
    numbers_returned,  \* per instance: integers returned by generate_numbers
    seed_results,      \* per seed: first result of generate_random_with_seed
    seed_calls,        \* per seed: number of generate_random_with_seed calls
    seed_disturbed,    \* per seed: another random call came after the first
    solo_rng,          \* the generator's state in the run without instance g2
    solo_ret,          \* what the last g1 call returns in the run without g2
    \* RandomDataGenerator.generate_password (src/test.py:25-56)
    pw_pc,             \* "idle" | "required" | "fill" | "shuffle" | "done"
    pw_args,           \* <<length, min_uppercase, min_digits, min_symbols>>
    password_chars,    \* the local list `password_chars`
    \* RandomDataGenerator.generate_event_log (src/test.py:90-365)
    now,               \* the wall clock, in minutes
    ev_pc,             \* "idle" | "loop" | "done"
    ev_count,          \* the argument count
    ev_i,              \* the loop variable i (iterations done)
    call_time,         \* datetime.now() as read on entry
    base_time,         \* the local `base_time`, in minutes
    events,            \* the local list `events`
    ev_ret,            \* the list returned
    \* RandomDataGenerator.generate_blockchain_audit_trail (src/test.py:638-761)
    bc_pc,             \* "idle" | "block" | "mine" | "done"
    bc_events,         \* the argument events
    bc_index,          \* the loop variable index (events done)
    previous_hash,     \* the local `previous_hash`
    audit_entry,       \* the local `audit_entry`
    block_data,        \* the local `block_data`
    blockchain,        \* the local list `blockchain`
    bc_ret,            \* the list returned
    \* PureNeuralNetwork (src/pure_python_nn.py) and SimpleNeuralNetwork
    \* (src/neural_network_simple_demo.py), trained on the same data
    training_data,     \* the list of (inputs, targets) pairs
    w1, b1, w2, b2,    \* PureNeuralNetwork's parameters
    hidden, output,    \* PureNeuralNetwork's self.hidden, self.output
    pure_epoch,        \* epochs PureNeuralNetwork.train has completed
    pure_pos,          \* samples done in the current epoch
    weights_input_hidden,    \* SimpleNeuralNetwork's parameters
    weights_hidden_output,
    simple_epoch,      \* epochs SimpleNeuralNetwork.train has completed
    \* history: the parameters updated so far, in order, by layer
    pure_updates,
    simple_updates

fibVars == <<fib_pc, fib_n, sequence, fib_ret>>
genVars == <<rng, constructed, generated_count, ret, calls>>
histVars == <<numbers_returned, seed_results, seed_calls, seed_disturbed,
              solo_rng, solo_ret>>

pwVars == <<pw_pc, pw_args, password_chars>>

evVars == <<now, ev_pc, ev_count, ev_i, call_time, base_time, events, ev_ret>>

bcVars == <<bc_pc, bc_events, bc_index, previous_hash, audit_entry,
            block_data, blockchain, bc_ret>>

pureVars == <<w1, b1, w2, b2, hidden, output, pure_epoch, pure_pos,
              pure_updates>>
simpleVars == <<weights_input_hidden, weights_hidden_output, simple_epoch,
                simple_updates>>
nnVars == <<training_data, pureVars, simpleVars>>

vars == <<fibVars, genVars, histVars, pwVars, evVars, bcVars, nnVars>>

\* What each part of the repository leaves alone.
notFibVars == <<genVars, histVars, pwVars, evVars, bcVars, nnVars>>
notGenVars == <<fibVars, pwVars, evVars, bcVars, nnVars>>
notPwVars == <<fibVars, histVars, rng, constructed, calls, evVars, bcVars,
               nnVars>>
notEvVars == <<fibVars, genVars, histVars, pwVars, bcVars, nnVars>>
notBcVars == <<fibVars, genVars, histVars, pwVars, evVars, nnVars>>
notNnVars == <<fibVars, genVars, histVars, pwVars, evVars, bcVars>>

-----------------------------------------------------------------------------
(***************************************************************************)
(* RandomDataGenerator.fibonacci                                           *)
(***************************************************************************)

\* Largest argument n tried, and how far below zero the arguments go.
MaxFibN == 15
MaxFibNeg == 2

FibArgs == (0 - MaxFibNeg)..MaxFibN

FibIdle ==
    /\ fib_pc = "idle"
    /\ fib_n = 0
    /\ sequence = <<>>
    /\ fib_ret = <<>>

\* sequence.append(sequence[-1] + sequence[-2]), with the operands swapped
\* for the same element (a slip of the index).
FibAppendSameIndex(seq) == Append(seq, seq[Len(seq)] + seq[Len(seq)])

\* sequence.append(sequence[-1] + sequence[-2])
FibAppend(seq) == Append(seq, seq[Len(seq)] + seq[Len(seq) - 1])

\* Entering fibonacci(n): the two early returns, else sequence = [0, 1].
FibCall(n) ==
    /\ fib_pc = "idle"
    /\ fib_n' = n
    /\ IF n <= 0
         THEN fib_pc' = "done" /\ fib_ret' = <<>> /\ sequence' = <<>>
         ELSE IF n = 1
           THEN fib_pc' = "done" /\ fib_ret' = <<0>> /\ sequence' = <<>>
           ELSE fib_pc' = "loop" /\ sequence' = <<0, 1>> /\ fib_ret' = <<>>
    /\ UNCHANGED notFibVars

\* One iteration of `while len(sequence) < n`.
FibLoop ==
    /\ fib_pc = "loop"
    /\ Len(sequence) < fib_n
    /\ sequence' = FibAppend(sequence)
    /\ UNCHANGED <<fib_pc, fib_n, fib_ret>>
    /\ UNCHANGED notFibVars

\* The loop condition fails: return sequence.
FibReturn ==
    /\ fib_pc = "loop"
    /\ ~(Len(sequence) < fib_n)
    /\ fib_pc' = "done"
    /\ fib_ret' = sequence
    /\ UNCHANGED <<fib_n, sequence>>
    /\ UNCHANGED notFibVars

\* C1: fibonacci(n) returns the first n Fibonacci terms: [] for n <= 0, [0]
\* for n = 1, and for n >= 2 exactly n integers starting 0, 1 in which every
\* later element is the sum of the two before it.
FibonacciFirstTerms ==
    fib_pc = "done" =>
        /\ fib_n <= 0 => fib_ret = <<>>
        /\ fib_n = 1 => fib_ret = <<0>>
        /\ fib_n >= 2 =>
              /\ Len(fib_ret) = fib_n
              /\ fib_ret[1] = 0
              /\ fib_ret[2] = 1
              /\ \A i \in 3..fib_n : fib_ret[i] = fib_ret[i - 1] + fib_ret[i - 2]

\* main's call fibonacci(10) has returned, and its last term is 34.
FibonacciTenReturned ==
    /\ fib_pc = "done"
    /\ fib_n = 10
    /\ Len(fib_ret) = 10
    /\ fib_ret[10] = 34

-----------------------------------------------------------------------------
(***************************************************************************)
(* The module-level generator of `random`, shared by everything that runs  *)
(* in one Python process.  The Mersenne Twister is modelled by a small     *)
(* linear congruential generator: seeding is a function of the seed, each  *)
(* draw is a function of the state and moves the state on.                 *)
(***************************************************************************)

\* Number of states of the modelled generator.
RngMod == 8

RngStates == 0..(RngMod - 1)

Abs(x) == IF x < 0 THEN 0 - x ELSE x

\* random.seed(a) for an int a: the state is a function of abs(a).
RngSeeded(seed) == (3 * Abs(seed) + 1) % RngMod

\* The state after one draw.
RngStep(state) == (5 * state + 3) % RngMod

\* random.random() in state `state`: the float drawn, as its numerator over
\* RngMod.
RngRandom(state) == state

\* random.randint(a, b) for a <= b in state `state`.
RngRandint(state, a, b) == a + (state % (b - a + 1))

\* What a call does: the generator's state after it, whether it raised, and
\* the items it returned (a scalar result is the one-element list).
Effect(state, raised, value) ==
    [state |-> state, raised |-> raised, value |-> value]

-----------------------------------------------------------------------------
(***************************************************************************)
(* src/random_gen.py and src/randomnum.py                                  *)
(***************************************************************************)

\* Seeds and ranges tried.
MaxSeed == 2
MaxCalls == 3

SeedArgs == (0 - MaxSeed)..MaxSeed
\* Optional[int]: None is the empty tuple, the int s is <<s>>.
NoSeed == <<>>
OptionalSeeds == {NoSeed} \cup {<<s>> : s \in SeedArgs}
RangeArgs == {<<1, 1>>, <<1, 2>>, <<2, 1>>, <<0, 2>>}

\* generate_random_with_seed without its random.seed(seed) line.
SeededRandomNoSeed(state, seed) ==
    Effect(RngStep(state), FALSE, <<RngRandom(state)>>)

\* generate_random_with_seed(seed): random.seed(seed); return random.random()
SeededRandom(state, seed) ==
    Effect(RngStep(RngSeeded(seed)), FALSE, <<RngRandom(RngSeeded(seed))>>)

\* generate_random_number(min_value, max_value): return random.randint(..);
\* randint raises ValueError on an empty range, before drawing.
RandomNumber(state, a, b) ==
    IF a > b
      THEN Effect(state, TRUE, <<>>)
      ELSE Effect(RngStep(state), FALSE, <<RngRandint(state, a, b)>>)

-----------------------------------------------------------------------------
(***************************************************************************)
(* RandomDataGenerator: __init__, generate_numbers, generate_color         *)
(***************************************************************************)

Instances == {"g1", "g2"}

\* Arguments tried for generate_numbers(count, ..): -MaxNegCount..MaxCount.
MaxCount == 2
MaxNegCount == 1

CountArgs == (0 - MaxNegCount)..MaxCount

\* 0xFFFFFF, the largest colour.
ColorMax == 16777215

HexDigits == <<"0", "1", "2", "3", "4", "5", "6", "7",
               "8", "9", "a", "b", "c", "d", "e", "f">>

RECURSIVE HexPadded(_, _)
\* format(n, "0<width>x") for 0 <= n < 16^width
HexPadded(n, width) ==
    IF width = 0
      THEN <<>>
      ELSE Append(HexPadded(n \div 16, width - 1), HexDigits[(n % 16) + 1])

\* __init__(seed): `if seed: random.seed(seed)`; None and 0 are falsy.
InitSeed(state, seed) ==
    IF seed # NoSeed /\ seed[1] # 0 THEN RngSeeded(seed[1]) ELSE state

RECURSIVE RandintList(_, _, _, _)
\* [random.randint(a, b) for _ in range(count)] for a <= b
RandintList(state, count, a, b) ==
    IF count <= 0
      THEN Effect(state, FALSE, <<>>)
      ELSE LET rest == RandintList(RngStep(state), count - 1, a, b)
           IN  Effect(rest.state, FALSE,
                      <<RngRandint(state, a, b)>> \o rest.value)

\* The list comprehension of generate_numbers: nothing is drawn for
\* count <= 0, and the first randint raises when min_val > max_val.
NumbersDrawn(state, count, a, b) ==
    IF count <= 0
      THEN Effect(state, FALSE, <<>>)
      ELSE IF a > b
        THEN Effect(state, TRUE, <<>>)
        ELSE RandintList(state, count, a, b)

\* generate_color: f"#{random.randint(0, 0xFFFFFF):06x}"
ColorDrawn(state) ==
    Effect(RngStep(state), FALSE,
           <<"#">> \o HexPadded(RngRandint(state, 0, ColorMax), 6))

Call(op, self, args, eff) ==
    [op |-> op, self |-> self, args |-> args,
     raised |-> eff.raised, value |-> eff.value]

NoCall == Call("none", "none", <<>>, Effect(0, FALSE, <<>>))

GenIdle ==
    /\ rng = 0
    /\ constructed = {}
    /\ generated_count = [g \in Instances |-> 0]
    /\ ret = NoCall
    /\ calls = 0
    /\ numbers_returned = [g \in Instances |-> 0]
    /\ seed_results = [s \in SeedArgs |-> <<>>]
    /\ seed_calls = [s \in SeedArgs |-> 0]
    /\ seed_disturbed = [s \in SeedArgs |-> FALSE]
    /\ solo_rng = 0
    /\ solo_ret = NoCall

\* The seeds already used are disturbed by any other draw from the shared
\* generator.
Disturb == [s \in SeedArgs |-> seed_calls[s] > 0]

\* generator = RandomDataGenerator(seed)
Construct(g, seed) ==
    /\ calls < MaxCalls
    /\ g \notin constructed
    /\ constructed' = constructed \cup {g}
    /\ rng' = InitSeed(rng, seed)
    /\ generated_count' = [generated_count EXCEPT ![g] = 0]
    /\ ret' = Call("__init__", g, <<seed>>, Effect(0, FALSE, <<>>))
    /\ calls' = calls + 1
    /\ IF g = "g1"
         THEN solo_rng' = InitSeed(solo_rng, seed) /\ solo_ret' = ret'
         ELSE UNCHANGED <<solo_rng, solo_ret>>
    /\ UNCHANGED <<numbers_returned, seed_results, seed_calls, seed_disturbed>>
    /\ UNCHANGED notGenVars

\* g.generate_numbers(count, min_val, max_val)
GenerateNumbers(g, count, min_val, max_val) ==
    /\ calls < MaxCalls
    /\ g \in constructed
    /\ LET eff == NumbersDrawn(rng, count, min_val, max_val)
           solo == NumbersDrawn(solo_rng, count, min_val, max_val)
           args == <<count, min_val, max_val>>
       IN  /\ generated_count' =
                  [generated_count EXCEPT ![g] = generated_count[g] + count]
           /\ rng' = eff.state
           /\ ret' = Call("generate_numbers", g, args, eff)
           /\ numbers_returned' =
                  [numbers_returned EXCEPT
                      ![g] = numbers_returned[g] + Len(eff.value)]
           /\ IF g = "g1"
                THEN /\ solo_rng' = solo.state
                     /\ solo_ret' = Call("generate_numbers", g, args, solo)
                ELSE UNCHANGED <<solo_rng, solo_ret>>
    /\ calls' = calls + 1
    /\ seed_disturbed' = Disturb
    /\ UNCHANGED <<constructed, seed_results, seed_calls>>
    /\ UNCHANGED notGenVars

\* g.generate_color()
GenerateColor(g) ==
    /\ calls < MaxCalls
    /\ g \in constructed
    /\ LET eff == ColorDrawn(rng)
           solo == ColorDrawn(solo_rng)
       IN  /\ rng' = eff.state
           /\ ret' = Call("generate_color", g, <<>>, eff)
           /\ IF g = "g1"
                THEN /\ solo_rng' = solo.state
                     /\ solo_ret' = Call("generate_color", g, <<>>, solo)
                ELSE UNCHANGED <<solo_rng, solo_ret>>
    /\ calls' = calls + 1
    /\ seed_disturbed' = Disturb
    /\ UNCHANGED <<constructed, generated_count, numbers_returned,
                   seed_results, seed_calls>>
    /\ UNCHANGED notGenVars

\* generate_random_with_seed(seed), of src/random_gen.py
GenerateRandomWithSeed(seed) ==
    /\ calls < MaxCalls
    /\ LET eff == SeededRandom(rng, seed)
           solo == SeededRandom(solo_rng, seed)
       IN  /\ rng' = eff.state
           /\ solo_rng' = solo.state
           /\ ret' = Call("generate_random_with_seed", "module", <<seed>>, eff)
           /\ seed_results' =
                  IF seed_calls[seed] = 0
                    THEN [seed_results EXCEPT ![seed] = eff.value]
                    ELSE seed_results
    /\ seed_calls' = [seed_calls EXCEPT ![seed] = seed_calls[seed] + 1]
    /\ seed_disturbed' =
           [s \in SeedArgs |-> IF s = seed THEN seed_disturbed[s]
                                           ELSE seed_calls[s] > 0]
    /\ calls' = calls + 1
    /\ UNCHANGED <<constructed, generated_count, numbers_returned, solo_ret>>
    /\ UNCHANGED notGenVars

\* generate_random_number(min_value, max_value), of src/randomnum.py
GenerateRandomNumber(a, b) ==
    /\ calls < MaxCalls
    /\ LET eff == RandomNumber(rng, a, b)
           solo == RandomNumber(solo_rng, a, b)
       IN  /\ rng' = eff.state
           /\ solo_rng' = solo.state
           /\ ret' = Call("generate_random_number", "module", <<a, b>>, eff)
    /\ calls' = calls + 1
    /\ seed_disturbed' = Disturb
    /\ UNCHANGED <<constructed, generated_count, numbers_returned,
                   seed_results, seed_calls, solo_ret>>
    /\ UNCHANGED notGenVars

-----------------------------------------------------------------------------
(***************************************************************************)
(* RandomDataGenerator.generate_password.  The characters come from        *)
(* `secrets` (the operating system's entropy), not from `random`: every    *)
(* choice is free.  Each alphabet of `string` is cut down to a sample.     *)
(***************************************************************************)

\* Arguments tried: length in -MaxNegArg..MaxPwLen, and each of
\* min_uppercase, min_digits, min_symbols in -MaxNegArg..MaxMin.
MaxPwLen == 3
MaxMin == 1
MaxNegArg == 1

LengthArgs == (0 - MaxNegArg)..MaxPwLen
MinArgs == (0 - MaxNegArg)..MaxMin

AsciiUppercase == {"A", "Z"}        \* string.ascii_uppercase
AsciiLowercase == {"a"}             \* string.ascii_lowercase
Digits == {"0"}                     \* string.digits
Punctuation == {"!"}                \* string.punctuation
\* all_chars = string.ascii_letters + string.digits + string.punctuation
AllChars == AsciiUppercase \cup AsciiLowercase \cup Digits \cup Punctuation

\* The lists `secrets.choice(alphabet) for _ in range(n)` can produce;
\* range(n) is empty for n <= 0.
Choices(alphabet, n) == IF n <= 0 THEN {<<>>} ELSE [1..n -> alphabet]

RemoveAt(chars, i) ==
    SubSeq(chars, 1, i - 1) \o SubSeq(chars, i + 1, Len(chars))

RECURSIVE Shuffles(_)
\* The orders secrets.SystemRandom().shuffle can leave the list in: every
\* arrangement of its elements.
Shuffles(chars) ==
    IF chars = <<>>
      THEN {<<>>}
      ELSE UNION {{<<chars[i]>> \o rest : rest \in Shuffles(RemoveAt(chars, i))} :
                    i \in 1..Len(chars)}

\* The length check with min_symbols left out of the sum.
TooShortForgetsSymbols(length, min_uppercase, min_digits, min_symbols) ==
    length < (min_uppercase + min_digits)

\* length < (min_uppercase + min_digits + min_symbols)
TooShort(length, min_uppercase, min_digits, min_symbols) ==
    length < (min_uppercase + min_digits + min_symbols)

\* The fill count taken as the whole length.
RemainingWholeLength(length, chars) == length

\* remaining = length - len(password_chars)
Remaining(length, chars) == length - Len(chars)

PwIdle ==
    /\ pw_pc = "idle"
    /\ pw_args = <<0, 0, 0, 0>>
    /\ password_chars = <<>>

\* Entering generate_password: the length check, then password_chars = [].
PwCall(g, length, min_uppercase, min_digits, min_symbols) ==
    /\ pw_pc = "idle"
    /\ g \in constructed
    /\ pw_args' = <<length, min_uppercase, min_digits, min_symbols>>
    /\ password_chars' = <<>>
    /\ IF TooShort(length, min_uppercase, min_digits, min_symbols)
         THEN /\ pw_pc' = "done"
              /\ ret' = Call("generate_password", g, pw_args',
                             Effect(0, TRUE, <<>>))
         ELSE /\ pw_pc' = "required"
              /\ ret' = Call("generate_password", g, pw_args',
                             Effect(0, FALSE, <<>>))
    /\ UNCHANGED generated_count
    /\ UNCHANGED notPwVars

\* The required uppercase letters, digits and symbols, in that order.
PwRequired ==
    /\ pw_pc = "required"
    /\ \E up \in Choices(AsciiUppercase, pw_args[2]),
          dg \in Choices(Digits, pw_args[3]),
          sy \in Choices(Punctuation, pw_args[4]) :
          password_chars' = password_chars \o up \o dg \o sy
    /\ pw_pc' = "fill"
    /\ UNCHANGED <<pw_args, ret, generated_count>>
    /\ UNCHANGED notPwVars

\* The remaining length, filled from all_chars.
PwFill ==
    /\ pw_pc = "fill"
    /\ \E fill \in Choices(AllChars, Remaining(pw_args[1], password_chars)) :
          password_chars' = password_chars \o fill
    /\ pw_pc' = "shuffle"
    /\ UNCHANGED <<pw_args, ret, generated_count>>
    /\ UNCHANGED notPwVars

\* shuffle(password_chars); return ''.join(password_chars)
PwShuffleReturn ==
    /\ pw_pc = "shuffle"
    /\ \E shuffled \in Shuffles(password_chars) :
          /\ password_chars' = shuffled
          /\ ret' = [ret EXCEPT !.value = shuffled]
    /\ pw_pc' = "done"
    /\ UNCHANGED <<pw_args, generated_count>>
    /\ UNCHANGED notPwVars

-----------------------------------------------------------------------------
(***************************************************************************)
(* Properties of generate_password                                         *)
(***************************************************************************)

CountIn(chars, alphabet) ==
    Cardinality({i \in 1..Len(chars) : chars[i] \in alphabet})

\* C2: whenever length < min_uppercase + min_digits + min_symbols, the call
\* to generate_password raises ValueError at once: it produces no password
\* and leaves generated_count as it was.
PasswordTooShortRaises ==
    [][(/\ pw_pc = "idle"
        /\ pw_pc' # "idle"
        /\ pw_args'[1] < pw_args'[2] + pw_args'[3] + pw_args'[4])
       => (/\ pw_pc' = "done"
           /\ ret'.op = "generate_password"
           /\ ret'.raised
           /\ ret'.value = <<>>
           /\ generated_count' = generated_count)]_vars

\* generate_password(2, 1, 1, 1) has raised on an instance whose
\* generated_count is 2.
PasswordRaisedSeen ==
    /\ pw_pc = "done"
    /\ pw_args = <<2, 1, 1, 1>>
    /\ ret.raised
    /\ generated_count["g1"] = 2

\* C3: for non-negative min_uppercase, min_digits, min_symbols and a length
\* of at least their sum, the password returned has exactly `length`
\* characters, at least min_uppercase of them uppercase letters, at least
\* min_digits digits and at least min_symbols punctuation characters.
PasswordMeetsRequirements ==
    (/\ pw_pc = "done"
     /\ pw_args[2] >= 0 /\ pw_args[3] >= 0 /\ pw_args[4] >= 0
     /\ pw_args[1] >= pw_args[2] + pw_args[3] + pw_args[4])
    => (/\ ~ret.raised
        /\ Len(ret.value) = pw_args[1]
        /\ CountIn(ret.value, AsciiUppercase) >= pw_args[2]
        /\ CountIn(ret.value, Digits) >= pw_args[3]
        /\ CountIn(ret.value, Punctuation) >= pw_args[4])

\* generate_password(3, 1, 1, 1) has returned a password that the shuffle
\* reordered: it starts with the symbol and ends with the uppercase letter.
PasswordShuffledSeen ==
    /\ pw_pc = "done"
    /\ pw_args = <<3, 1, 1, 1>>
    /\ ~ret.raised
    /\ ret.value = <<"!", "0", "Z">>

-----------------------------------------------------------------------------
(***************************************************************************)
(* Properties of the instances and of the shared generator                 *)
(***************************************************************************)

\* C4: generated_count of every instance equals the total number of
\* integers its generate_numbers calls have returned so far.
GeneratedCountIsTotalReturned ==
    \A g \in constructed : generated_count[g] = numbers_returned[g]

\* C5: the values instance g1 gets from its generate_* methods are the
\* values it gets in the run in which the second instance g2 is never
\* constructed and never called.
InstanceValuesIsolated ==
    (ret.self = "g1" /\ ret.op # "__init__")
    => (ret.raised = solo_ret.raised /\ ret.value = solo_ret.value)

\* C6: every call generate_random_with_seed(s) returns what the first call
\* with that seed returned, whatever was drawn from `random` before or
\* between them.
SeededResultRepeats ==
    ret.op = "generate_random_with_seed"
    => ret.value = seed_results[ret.args[1]]

\* A second call with some seed has returned, after another draw from the
\* shared generator that followed the first call with that seed.
SeededRepeatAfterDisturbance ==
    /\ ret.op = "generate_random_with_seed"
    /\ seed_calls[ret.args[1]] >= 2
    /\ seed_disturbed[ret.args[1]]

-----------------------------------------------------------------------------
(***************************************************************************)
(* RandomDataGenerator.generate_event_log.  Time is counted in minutes;    *)
(* the seconds and microseconds of datetime.now() stay what they were on   *)
(* entry and are left out.  Of an event only the timestamp is kept: the    *)
(* other fields are draws that decide nothing about the list.              *)
(***************************************************************************)

\* Arguments tried for generate_event_log(count): -MaxNegEvents..MaxEvents.
MaxEvents == 2
MaxNegEvents == 1

EventCountArgs == (0 - MaxNegEvents)..MaxEvents

HoursBack == 24              \* timedelta(hours=24)
MinOffsetMinutes == 0        \* random.randint(0, 60)
MaxOffsetMinutes == 60
MinutesPerHour == 60
HoursPerDay == 24

\* The wall clock at the call: a midnight, and half an hour before one.
NowChoices == {2 * HoursPerDay * MinutesPerHour,
               3 * HoursPerDay * MinutesPerHour - 30}

\* datetime.isoformat(): the date, the hour and the minute, compared as the
\* strings are, field by field from the left.
IsoFormat(t) ==
    <<t \div (HoursPerDay * MinutesPerHour),
      (t % (HoursPerDay * MinutesPerHour)) \div MinutesPerHour,
      t % MinutesPerHour>>

\* datetime.fromisoformat()
FromIsoFormat(ts) ==
    ts[1] * HoursPerDay * MinutesPerHour + ts[2] * MinutesPerHour + ts[3]

IsoLeq(a, b) ==
    \/ a[1] < b[1]
    \/ a[1] = b[1] /\ a[2] < b[2]
    \/ a[1] = b[1] /\ a[2] = b[2] /\ a[3] <= b[3]

\* events.insert(0, event) in place of events.append(event)
InsertEventFirst(evs, event) == <<event>> \o evs

\* events.append(event)
AppendEvent(evs, event) == Append(evs, event)

EvIdle ==
    /\ now = 0
    /\ ev_pc = "idle"
    /\ ev_count = 0
    /\ ev_i = 0
    /\ call_time = 0
    /\ base_time = 0
    /\ events = <<>>
    /\ ev_ret = <<>>

\* Entering generate_event_log(count):
\* base_time = datetime.now() - timedelta(hours=24); events = []
EventLogCall(count) ==
    /\ ev_pc = "idle"
    /\ ev_pc' = "loop"
    /\ ev_count' = count
    /\ ev_i' = 0
    /\ call_time' = now
    /\ base_time' = now - HoursBack * MinutesPerHour
    /\ events' = <<>>
    /\ UNCHANGED <<now, ev_ret>>
    /\ UNCHANGED notEvVars

\* One iteration of `for i in range(count)`, randint having drawn `offset`.
EventLogIter(offset) ==
    /\ ev_pc = "loop"
    /\ ev_i < ev_count
    /\ base_time' = base_time + offset
    /\ events' = AppendEvent(events, [timestamp |-> IsoFormat(base_time')])
    /\ ev_i' = ev_i + 1
    /\ UNCHANGED <<now, ev_pc, ev_count, call_time, ev_ret>>
    /\ UNCHANGED notEvVars

\* The loop is over: return events.
EventLogReturn ==
    /\ ev_pc = "loop"
    /\ ~(ev_i < ev_count)
    /\ ev_pc' = "done"
    /\ ev_ret' = events
    /\ UNCHANGED <<now, ev_count, ev_i, call_time, base_time, events>>
    /\ UNCHANGED notEvVars

\* C7: generate_event_log(count) returns exactly count events for every
\* count >= 0, their timestamps in non-decreasing order, each between 0 and
\* 60 minutes later than the timestamp of the event before it.
EventLogOrdered ==
    (ev_pc = "done" /\ ev_count >= 0)
    => /\ Len(ev_ret) = ev_count
       /\ \A k \in 2..Len(ev_ret) :
             /\ IsoLeq(ev_ret[k - 1].timestamp, ev_ret[k].timestamp)
             /\ FromIsoFormat(ev_ret[k].timestamp)
                  - FromIsoFormat(ev_ret[k - 1].timestamp)
                  \in MinOffsetMinutes..MaxOffsetMinutes

\* Two events have been returned, an hour apart and on either side of
\* midnight.
EventLogAcrossMidnight ==
    /\ ev_pc = "done"
    /\ ev_count = 2
    /\ Len(ev_ret) = 2
    /\ ev_ret[2].timestamp[1] = ev_ret[1].timestamp[1] + 1
    /\ FromIsoFormat(ev_ret[2].timestamp)
         - FromIsoFormat(ev_ret[1].timestamp) = MaxOffsetMinutes

\* simulate_global_payment_network: events = self.generate_event_log(100)
SimulationEvents == 100

\* The counts of a long log: the first count whose hourly draws outrun the
\* 24 hours base_time starts behind the clock, and the simulation's count.
LongEventCounts == {HoursBack + 1, SimulationEvents}

\* The draws of random.randint(0, 60) followed in a long log: the largest.
LongOffsets == {MaxOffsetMinutes}

\* C11: every event returned by generate_event_log(count), for every count,
\* has a timestamp inside the 24 hours that precede the call and not later
\* than the time of the call, which is what the dashboard's time_period
\* "Last 24 hours" says of the events it aggregates.
EventLogWithinLastDay ==
    ev_pc = "done"
    => \A k \in 1..Len(ev_ret) :
          /\ FromIsoFormat(ev_ret[k].timestamp)
               >= call_time - HoursBack * MinutesPerHour
          /\ FromIsoFormat(ev_ret[k].timestamp) <= call_time

-----------------------------------------------------------------------------
(***************************************************************************)
(* RandomDataGenerator.generate_blockchain_audit_trail.  hashlib.sha256 is *)
(* modelled by a function from the hashed string to a digest of DigestLen  *)
(* digits in base DigestBase (the library's is 64 digits in base 16).  The *)
(* fields a block gets after mining (merkle_root, signature, chain_valid,  *)
(* block_size_bytes) change none of the fields kept here.                  *)
(***************************************************************************)

\* Longest list of events tried, and the size of the modelled digest.
MaxChainEvents == 2
DigestLen == 3
DigestBase == 2

DifficultyZeros == 2         \* target_difficulty = "00"

DigestSpace == DigestBase ^ DigestLen

\* hexdigest(): the digits of a digest, most significant first.
HexDigest(h) ==
    [k \in 1..DigestLen |-> (h \div (DigestBase ^ (DigestLen - k))) % DigestBase]

RECURSIVE DigestValue(_)
DigestValue(digits) ==
    IF digits = <<>>
      THEN 0
      ELSE DigestBase * DigestValue(SubSeq(digits, 1, Len(digits) - 1))
             + digits[Len(digits)]

\* "0" * 64: a previous_hash of all zeros, for the first block.
GenesisHash == [k \in 1..DigestLen |-> 0]

ChainEventTypes == <<"payment_processed", "user_login", "api_call">>
EventIds == {1, 2}
\* What the draws of the user_login branch (ip_address, session_id,
\* auth_method) can make of `data`.
LoginData == {3, 4}

TypeCode(type) == CHOOSE k \in 1..Len(ChainEventTypes) : ChainEventTypes[k] = type

\* json.dumps(audit_entry, sort_keys=True): the values in the order of
\* their keys.
JsonDumps(entry) ==
    <<entry.block_number, entry.data, entry.event_id, entry.event_type,
      entry.nonce, entry.previous_hash, entry.timestamp>>

\* hashlib.sha256((block_data + str(nonce)).encode()).hexdigest()
Sha256Hex(dumped, nonce) ==
    HexDigest((3 * dumped[1] + 5 * dumped[2] + 11 * dumped[3]
                 + 13 * TypeCode(dumped[4]) + 23 * dumped[5]
                 + 17 * DigestValue(dumped[6]) + 19 * FromIsoFormat(dumped[7])
                 + 7 * nonce) % DigestSpace)

\* A target of a single leading zero.
MeetsTargetOneZero(hash) == hash[1] = 0

\* block_hash.startswith(target_difficulty)
MeetsTarget(hash) == \A k \in 1..DifficultyZeros : hash[k] = 0

\* previous_hash left as it was after a block is appended.
LinkHashStale(prev, entry) == prev

\* previous_hash = audit_entry["hash"]
LinkHash(prev, entry) == entry.hash

NoEntry == [block_number |-> 0]

BcIdle ==
    /\ bc_pc = "idle"
    /\ bc_events = <<>>
    /\ bc_index = 0
    /\ previous_hash = <<>>
    /\ audit_entry = NoEntry
    /\ block_data = <<>>
    /\ blockchain = <<>>
    /\ bc_ret = <<>>

\* The `data` of a block: taken from the metadata of a payment, drawn for a
\* login, empty for any other event.
BlockDataChoices(event) ==
    IF event.type = "payment_processed"
      THEN {event.metadata}
      ELSE IF event.type = "user_login" THEN LoginData ELSE {0}

\* Entering: blockchain = []; previous_hash = "0" * 64
AuditTrailCall ==
    /\ bc_pc = "idle"
    /\ bc_pc' = "block"
    /\ blockchain' = <<>>
    /\ previous_hash' = GenesisHash
    /\ bc_index' = 0
    /\ UNCHANGED <<bc_events, audit_entry, block_data, bc_ret>>
    /\ UNCHANGED notBcVars

\* The next event: its audit_entry with nonce 0, and block_data.
AuditTrailEntry ==
    /\ bc_pc = "block"
    /\ bc_index < Len(bc_events)
    /\ LET event == bc_events[bc_index + 1]
       IN  \E data \in BlockDataChoices(event) :
              audit_entry' = [block_number |-> bc_index + 1,
                              timestamp |-> event.timestamp,
                              event_type |-> event.type,
                              event_id |-> event.id,
                              previous_hash |-> previous_hash,
                              nonce |-> 0,
                              data |-> data]
    /\ block_data' = JsonDumps(audit_entry')
    /\ bc_pc' = "mine"
    /\ UNCHANGED <<bc_events, bc_index, previous_hash, blockchain, bc_ret>>
    /\ UNCHANGED notBcVars

\* One iteration of `while True` in which the hash misses the target.
AuditTrailMineMiss ==
    /\ bc_pc = "mine"
    /\ ~MeetsTarget(Sha256Hex(block_data, audit_entry.nonce + 1))
    /\ audit_entry' = [audit_entry EXCEPT !.nonce = audit_entry.nonce + 1]
    /\ UNCHANGED <<bc_pc, bc_events, bc_index, previous_hash, block_data,
                   blockchain, bc_ret>>
    /\ UNCHANGED notBcVars

\* The iteration in which the hash meets the target, and the rest of the
\* loop body: the block is appended and previous_hash moves on.
AuditTrailMineHit ==
    /\ bc_pc = "mine"
    /\ LET nonce == audit_entry.nonce + 1
           block_hash == Sha256Hex(block_data, nonce)
           mined == [block_number |-> audit_entry.block_number,
                     timestamp |-> audit_entry.timestamp,
                     event_type |-> audit_entry.event_type,
                     event_id |-> audit_entry.event_id,
                     previous_hash |-> audit_entry.previous_hash,
                     nonce |-> nonce,
                     data |-> audit_entry.data,
                     hash |-> block_hash,
                     mining_attempts |-> nonce]
       IN  /\ MeetsTarget(block_hash)
           /\ audit_entry' = mined
           /\ blockchain' = Append(blockchain, mined)
           /\ previous_hash' = LinkHash(previous_hash, mined)
    /\ bc_index' = bc_index + 1
    /\ bc_pc' = "block"
    /\ UNCHANGED <<bc_events, block_data, bc_ret>>
    /\ UNCHANGED notBcVars

\* The events are used up: the summary is appended to a chain that is not
\* empty, and the list is returned.
AuditTrailReturn ==
    /\ bc_pc = "block"
    /\ ~(bc_index < Len(bc_events))
    /\ blockchain' =
          IF blockchain # <<>>
            THEN Append(blockchain,
                        [blockchain_summary |->
                            [chain_length |-> Len(blockchain)]])
            ELSE blockchain
    /\ bc_ret' = blockchain'
    /\ bc_pc' = "done"
    /\ UNCHANGED <<bc_events, bc_index, previous_hash, audit_entry, block_data>>
    /\ UNCHANGED notBcVars

\* The blocks of a returned trail: all but the trailing summary.
Blocks(trail) ==
    IF trail = <<>> THEN <<>> ELSE SubSeq(trail, 1, Len(trail) - 1)

\* The audit_entry of a block as it was when block_data was taken.
BeforeMining(block) ==
    [block_number |-> block.block_number,
     timestamp |-> block.timestamp,
     event_type |-> block.event_type,
     event_id |-> block.event_id,
     previous_hash |-> block.previous_hash,
     nonce |-> 0,
     data |-> block.data]

\* C8: the blocks of the returned trail form a hash chain: block i (0-based,
\* the trailing summary left out) has block_number i+1, the first block's
\* previous_hash is all zeros, and every later block's previous_hash is the
\* hash of the block before it.
AuditTrailIsHashChain ==
    bc_pc = "done" =>
        \A k \in 1..Len(Blocks(bc_ret)) :
            /\ Blocks(bc_ret)[k].block_number = k
            /\ k = 1 => Blocks(bc_ret)[k].previous_hash = GenesisHash
            /\ k > 1 => Blocks(bc_ret)[k].previous_hash
                          = Blocks(bc_ret)[k - 1].hash

\* A trail of two blocks has been returned, the second linked to a first
\* hash that is not the all-zero one.
AuditTrailTwoBlocksLinked ==
    /\ bc_pc = "done"
    /\ Len(Blocks(bc_ret)) = 2
    /\ Blocks(bc_ret)[1].hash # GenesisHash
    /\ Blocks(bc_ret)[2].previous_hash = Blocks(bc_ret)[1].hash

\* C9: every block of the trail meets the proof-of-work target: its hash
\* begins with "00", its nonce is >= 1 and equals mining_attempts, and the
\* nonce is the smallest positive n for which the hash of the block
\* serialised before mining (nonce 0) followed by str(n) begins with "00".
AuditTrailProofOfWork ==
    bc_pc = "done" =>
        \A k \in 1..Len(Blocks(bc_ret)) :
            LET block == Blocks(bc_ret)[k]
                dumped == JsonDumps(BeforeMining(block))
            IN  /\ block.hash[1] = 0 /\ block.hash[2] = 0
                /\ block.nonce >= 1
                /\ block.nonce = block.mining_attempts
                /\ block.hash = Sha256Hex(dumped, block.nonce)
                /\ \A n \in 1..(block.nonce - 1) :
                      LET h == Sha256Hex(dumped, n)
                      IN  ~(h[1] = 0 /\ h[2] = 0)

\* A block has been returned that took at least three mining attempts.
AuditTrailMinedHard ==
    /\ bc_pc = "done"
    /\ \E k \in 1..Len(Blocks(bc_ret)) : Blocks(bc_ret)[k].nonce >= 3

-----------------------------------------------------------------------------
(***************************************************************************)
(* The two backpropagation loops.  Floats are modelled in fixed point,     *)
(* Scale units to 1.0, products rounded down; 1 / (1 + exp(-x)) is         *)
(* modelled by its piecewise-linear approximation 1/2 + x/4 cut to [0, 1]. *)
(***************************************************************************)

\* Fixed-point units per 1.0, epochs trained, and the longest training set.
Scale == 64
MaxEpochs == 1
MaxSamples == 2

InputSize == 2               \* input_size=2, np.random.randn(2, 4)
HiddenSize == 4              \* hidden_size=4
OutputSize == 1              \* output_size=1, np.random.randn(4, 1)

InputIdx == 1..InputSize
HiddenIdx == 1..HiddenSize
OutputIdx == 1..OutputSize

\* learning_rate=0.5, in both classes
LearningRate == Scale \div 2

Mul(a, b) == (a * b) \div Scale

RECURSIVE SumSeq(_)
SumSeq(s) == IF s = <<>> THEN 0 ELSE Head(s) + SumSeq(Tail(s))

\* sigmoid(x)
Sigmoid(x) ==
    LET y == (Scale \div 2) + (x \div 4)
    IN  IF y < 0 THEN 0 ELSE IF y > Scale THEN Scale ELSE y

\* sigmoid_derivative(x): x * (1 - x)
SigmoidDerivative(x) == Mul(x, Scale - x)

\* The XOR table of both demos.
XorTable ==
    <<[inputs |-> <<0, 0>>, targets |-> <<0>>],
      [inputs |-> <<0, Scale>>, targets |-> <<Scale>>],
      [inputs |-> <<Scale, 0>>, targets |-> <<Scale>>],
      [inputs |-> <<Scale, Scale>>, targets |-> <<0>>]>>

\* The training sets tried: the runs of up to MaxSamples rows of the table.
TrainingSets ==
    {SubSeq(XorTable, a, b) :
        a \in 1..Len(XorTable), b \in 1..Len(XorTable)}
      \ {s \in {SubSeq(XorTable, a, b) :
                   a \in 1..Len(XorTable), b \in 1..Len(XorTable)} :
             Len(s) = 0 \/ Len(s) > MaxSamples}

\* The initial weights tried: half a unit each, the signs set by the parity
\* of the indices.
Signed(flip) == IF flip % 2 = 1 THEN 0 - (Scale \div 2) ELSE Scale \div 2
InitialW1 ==
    {[i \in InputIdx |-> [j \in HiddenIdx |-> Signed(p * i + q * j)]] :
        p \in {0, 1}, q \in {0, 1}}
InitialW2 ==
    {[j \in HiddenIdx |-> [k \in OutputIdx |-> Signed(r * j)]] : r \in {0, 1}}

\* The layers a parameter belongs to, for the history of updates.
PureUpdateOrder == <<"hidden_output", "output_bias", "input_hidden", "hidden_bias">>
SimpleUpdateOrder == <<"hidden_output", "input_hidden">>

\* PureNeuralNetwork.forward(inputs)
PureHidden(net, inputs) ==
    [j \in HiddenIdx |->
        Sigmoid(net.b1[j]
                  + SumSeq([i \in InputIdx |-> Mul(inputs[i], net.w1[i][j])]))]

PureOutput(net, hid) ==
    [k \in OutputIdx |->
        Sigmoid(net.b2[k]
                  + SumSeq([j \in HiddenIdx |-> Mul(hid[j], net.w2[j][k])]))]

PureForward(net, inputs) ==
    LET hid == PureHidden(net, inputs)
    IN  [net EXCEPT !.hidden = hid, !.output = PureOutput(net, hid)]

\* PureNeuralNetwork.backward with the two bias loops left out.
PureBackwardNoBias(net, inputs, targets) ==
    LET output_deltas ==
            [k \in OutputIdx |->
                Mul(targets[k] - net.output[k], SigmoidDerivative(net.output[k]))]
        hidden_deltas ==
            [j \in HiddenIdx |->
                Mul(SumSeq([k \in OutputIdx |-> Mul(output_deltas[k], net.w2[j][k])]),
                    SigmoidDerivative(net.hidden[j]))]
    IN  [net EXCEPT
            !.w2 = [j \in HiddenIdx |-> [k \in OutputIdx |->
                      net.w2[j][k]
                        + Mul(Mul(LearningRate, output_deltas[k]), net.hidden[j])]],
            !.w1 = [i \in InputIdx |-> [j \in HiddenIdx |->
                      net.w1[i][j]
                        + Mul(Mul(LearningRate, hidden_deltas[j]), inputs[i])]],
            !.updates = net.updates \o <<"hidden_output", "input_hidden">>]

\* PureNeuralNetwork.backward(inputs, targets): the deltas from the weights
\* as they are, then w2, b2, w1, b1 updated in that order.
PureBackward(net, inputs, targets) ==
    LET output_deltas ==
            [k \in OutputIdx |->
                Mul(targets[k] - net.output[k], SigmoidDerivative(net.output[k]))]
        hidden_deltas ==
            [j \in HiddenIdx |->
                Mul(SumSeq([k \in OutputIdx |-> Mul(output_deltas[k], net.w2[j][k])]),
                    SigmoidDerivative(net.hidden[j]))]
    IN  [net EXCEPT
            !.w2 = [j \in HiddenIdx |-> [k \in OutputIdx |->
                      net.w2[j][k]
                        + Mul(Mul(LearningRate, output_deltas[k]), net.hidden[j])]],
            !.b2 = [k \in OutputIdx |->
                      net.b2[k] + Mul(LearningRate, output_deltas[k])],
            !.w1 = [i \in InputIdx |-> [j \in HiddenIdx |->
                      net.w1[i][j]
                        + Mul(Mul(LearningRate, hidden_deltas[j]), inputs[i])]],
            !.b1 = [j \in HiddenIdx |->
                      net.b1[j] + Mul(LearningRate, hidden_deltas[j])],
            !.updates = net.updates \o PureUpdateOrder]

\* SimpleNeuralNetwork.train, one epoch: the forward pass on the whole
\* array, the deltas, and one update of each weight matrix.
SimpleEpoch(net, data) ==
    LET rows == 1..Len(data)
        hid == [n \in rows |-> [j \in HiddenIdx |->
                  Sigmoid(SumSeq([i \in InputIdx |->
                      Mul(data[n].inputs[i], net.weights_input_hidden[i][j])]))]]
        out == [n \in rows |-> [k \in OutputIdx |->
                  Sigmoid(SumSeq([j \in HiddenIdx |->
                      Mul(hid[n][j], net.weights_hidden_output[j][k])]))]]
        output_error == [n \in rows |-> [k \in OutputIdx |->
                  data[n].targets[k] - out[n][k]]]
        output_delta == [n \in rows |-> [k \in OutputIdx |->
                  Mul(output_error[n][k], SigmoidDerivative(out[n][k]))]]
        hidden_error == [n \in rows |-> [j \in HiddenIdx |->
                  SumSeq([k \in OutputIdx |->
                      Mul(output_delta[n][k], net.weights_hidden_output[j][k])])]]
        hidden_delta == [n \in rows |-> [j \in HiddenIdx |->
                  Mul(hidden_error[n][j], SigmoidDerivative(hid[n][j]))]]
    IN  [net EXCEPT
            !.weights_hidden_output = [j \in HiddenIdx |-> [k \in OutputIdx |->
                  net.weights_hidden_output[j][k]
                    + Mul(SumSeq([n \in rows |-> Mul(hid[n][j], output_delta[n][k])]),
                          LearningRate)]],
            !.weights_input_hidden = [i \in InputIdx |-> [j \in HiddenIdx |->
                  net.weights_input_hidden[i][j]
                    + Mul(SumSeq([n \in rows |->
                              Mul(data[n].inputs[i], hidden_delta[n][j])]),
                          LearningRate)]],
            !.updates = net.updates \o SimpleUpdateOrder]

PureNet ==
    [w1 |-> w1, b1 |-> b1, w2 |-> w2, b2 |-> b2,
     hidden |-> hidden, output |-> output, updates |-> pure_updates]

SimpleNet ==
    [weights_input_hidden |-> weights_input_hidden,
     weights_hidden_output |-> weights_hidden_output,
     updates |-> simple_updates]

NnIdle ==
    /\ training_data = <<>>
    /\ w1 = <<>> /\ b1 = <<>> /\ w2 = <<>> /\ b2 = <<>>
    /\ hidden = <<>> /\ output = <<>>
    /\ pure_epoch = 0 /\ pure_pos = 0
    /\ weights_input_hidden = <<>> /\ weights_hidden_output = <<>>
    /\ simple_epoch = 0
    /\ pure_updates = <<>> /\ simple_updates = <<>>

\* One pass of `for inputs, targets in training_data`: forward, the error
\* sum, backward.
PureTrainSample ==
    /\ pure_epoch < MaxEpochs
    /\ pure_pos < Len(training_data)
    /\ LET sample == training_data[pure_pos + 1]
           net == PureBackward(PureForward(PureNet, sample.inputs),
                               sample.inputs, sample.targets)
       IN  /\ w1' = net.w1 /\ b1' = net.b1 /\ w2' = net.w2 /\ b2' = net.b2
           /\ hidden' = net.hidden /\ output' = net.output
           /\ pure_updates' = net.updates
    /\ pure_pos' = pure_pos + 1
    /\ UNCHANGED <<pure_epoch, training_data, simpleVars>>
    /\ UNCHANGED notNnVars

\* The training data is used up: the epoch is over.
PureEpochEnd ==
    /\ pure_epoch < MaxEpochs
    /\ ~(pure_pos < Len(training_data))
    /\ pure_epoch' = pure_epoch + 1
    /\ pure_pos' = 0
    /\ UNCHANGED <<w1, b1, w2, b2, hidden, output, pure_updates,
                   training_data, simpleVars>>
    /\ UNCHANGED notNnVars

\* One pass of `for epoch in range(epochs)` of SimpleNeuralNetwork.train.
SimpleTrainEpoch ==
    /\ simple_epoch < MaxEpochs
    /\ LET net == SimpleEpoch(SimpleNet, training_data)
       IN  /\ weights_input_hidden' = net.weights_input_hidden
           /\ weights_hidden_output' = net.weights_hidden_output
           /\ simple_updates' = net.updates
    /\ simple_epoch' = simple_epoch + 1
    /\ UNCHANGED <<training_data, pureVars>>
    /\ UNCHANGED notNnVars

\* seq repeated n times.
Repeated(seq, n) ==
    [k \in 1..(n * Len(seq)) |-> seq[((k - 1) % Len(seq)) + 1]]

\* C10 as stated: started from the same weights on the same training data,
\* the two train methods have made the same sequence of parameter updates
\* whenever they have completed the same number of epochs.
TrainingLoopsSameUpdates ==
    (pure_epoch = simple_epoch /\ pure_pos = 0)
    => pure_updates = simple_updates

\* C10 as amended: PureNeuralNetwork.train updates the hidden-output
\* weights, the output bias, the input-hidden weights and the hidden bias,
\* in that order, once for every training sample it has gone through;
\* SimpleNeuralNetwork.train updates the hidden-output weights and then the
\* input-hidden weights once for every epoch, and no bias.
TrainingLoopsUpdateCounts ==
    /\ pure_updates =
          Repeated(<<"hidden_output", "output_bias", "input_hidden", "hidden_bias">>,
                   Len(training_data) * pure_epoch + pure_pos)
    /\ simple_updates =
          Repeated(<<"hidden_output", "input_hidden">>, simple_epoch)

\* Both networks have completed an epoch on two samples, after eight
\* updates in one and two in the other, and no longer hold the same
\* input-hidden weights.
TrainingLoopsDiverged ==
    /\ pure_epoch = 1 /\ pure_pos = 0
    /\ simple_epoch = 1
    /\ Len(training_data) = 2
    /\ Len(pure_updates) = 8
    /\ Len(simple_updates) = 2
    /\ w1 # weights_input_hidden

-----------------------------------------------------------------------------
(***************************************************************************)
(* The specifications                                                      *)
(***************************************************************************)

\* One Python process: the generator of `random` is seeded from the
\* operating system when the module is imported.
Init ==
    /\ FibIdle
    /\ rng \in RngStates
    /\ solo_rng = rng
    /\ constructed = {}
    /\ generated_count = [g \in Instances |-> 0]
    /\ ret = NoCall
    /\ calls = 0
    /\ numbers_returned = [g \in Instances |-> 0]
    /\ seed_results = [s \in SeedArgs |-> <<>>]
    /\ seed_calls = [s \in SeedArgs |-> 0]
    /\ seed_disturbed = [s \in SeedArgs |-> FALSE]
    /\ solo_ret = NoCall
    /\ PwIdle
    /\ EvIdle
    /\ BcIdle
    /\ NnIdle

Next ==
    \/ \E g \in Instances, seed \in OptionalSeeds : Construct(g, seed)
    \/ \E g \in Instances, count \in CountArgs, r \in RangeArgs :
          GenerateNumbers(g, count, r[1], r[2])
    \/ \E g \in Instances : GenerateColor(g)
    \/ \E seed \in SeedArgs : GenerateRandomWithSeed(seed)
    \/ \E r \in RangeArgs : GenerateRandomNumber(r[1], r[2])

Spec == Init /\ [][Next]_vars

FibInit == FibIdle /\ GenIdle /\ PwIdle /\ EvIdle /\ BcIdle /\ NnIdle

FibNext ==
    \/ \E n \in FibArgs : FibCall(n)
    \/ FibLoop
    \/ FibReturn

SpecFib == FibInit /\ [][FibNext]_vars

\* An instance fresh from __init__, or after generate_numbers(MaxCount).
PwInit ==
    /\ FibIdle
    /\ PwIdle
    /\ EvIdle
    /\ BcIdle
    /\ NnIdle
    /\ rng = 0
    /\ solo_rng = 0
    /\ constructed = {"g1"}
    /\ \E count \in {0, MaxCount} :
          /\ generated_count = [g \in Instances |-> IF g = "g1" THEN count ELSE 0]
          /\ numbers_returned = generated_count
    /\ ret = NoCall
    /\ calls = 0
    /\ seed_results = [s \in SeedArgs |-> <<>>]
    /\ seed_calls = [s \in SeedArgs |-> 0]
    /\ seed_disturbed = [s \in SeedArgs |-> FALSE]
    /\ solo_ret = NoCall

PwNext ==
    \/ \E g \in Instances, length \in LengthArgs, mu, md, ms \in MinArgs :
          PwCall(g, length, mu, md, ms)
    \/ PwRequired
    \/ PwFill
    \/ PwShuffleReturn

SpecPassword == PwInit /\ [][PwNext]_vars

EvInit ==
    /\ FibIdle
    /\ GenIdle
    /\ PwIdle
    /\ BcIdle
    /\ NnIdle
    /\ now \in NowChoices
    /\ ev_pc = "idle"
    /\ ev_count = 0
    /\ ev_i = 0
    /\ call_time = 0
    /\ base_time = 0
    /\ events = <<>>
    /\ ev_ret = <<>>

EvNext ==
    \/ \E count \in EventCountArgs : EventLogCall(count)
    \/ \E offset \in MinOffsetMinutes..MaxOffsetMinutes : EventLogIter(offset)
    \/ EventLogReturn

SpecEvents == EvInit /\ [][EvNext]_vars

\* generate_event_log called for a long log, as the payment network
\* simulation calls it.
EvLongInit == EvInit

EvLongNext ==
    \/ \E count \in LongEventCounts : EventLogCall(count)
    \/ \E offset \in LongOffsets : EventLogIter(offset)
    \/ EventLogReturn

SpecEventsLong == EvLongInit /\ [][EvLongNext]_vars

\* The events handed in: a list as generate_event_log makes them, each
\* with an id, a type, a timestamp and (for a payment) its metadata.
BcInit ==
    /\ FibIdle
    /\ GenIdle
    /\ PwIdle
    /\ EvIdle
    /\ NnIdle
    /\ bc_pc = "idle"
    /\ \E n \in 0..MaxChainEvents :
          \E types \in [1..n -> 1..Len(ChainEventTypes)], ids \in [1..n -> EventIds] :
             bc_events = [k \in 1..n |->
                            [id |-> ids[k],
                             type |-> ChainEventTypes[types[k]],
                             timestamp |-> IsoFormat(k * MaxOffsetMinutes),
                             metadata |-> ids[k]]]
    /\ bc_index = 0
    /\ previous_hash = <<>>
    /\ audit_entry = NoEntry
    /\ block_data = <<>>
    /\ blockchain = <<>>
    /\ bc_ret = <<>>

BcNext ==
    \/ AuditTrailCall
    \/ AuditTrailEntry
    \/ AuditTrailMineMiss
    \/ AuditTrailMineHit
    \/ AuditTrailReturn

SpecChain == BcInit /\ [][BcNext]_vars

\* Both networks constructed with the same weights (the biases of
\* PureNeuralNetwork start at 0.0), to be trained on the same data.
NnInit ==
    /\ FibIdle
    /\ GenIdle
    /\ PwIdle
    /\ EvIdle
    /\ BcIdle
    /\ training_data \in TrainingSets
    /\ w1 \in InitialW1
    /\ w2 \in InitialW2
    /\ b1 = [j \in HiddenIdx |-> 0]
    /\ b2 = [k \in OutputIdx |-> 0]
    /\ hidden = <<>>
    /\ output = <<>>
    /\ weights_input_hidden = w1
    /\ weights_hidden_output = w2
    /\ pure_epoch = 0
    /\ pure_pos = 0
    /\ simple_epoch = 0
    /\ pure_updates = <<>>
    /\ simple_updates = <<>>

NnNext ==
    \/ PureTrainSample
    \/ PureEpochEnd
    \/ SimpleTrainEpoch

SpecTrain == NnInit /\ [][NnNext]_vars

=============================================================================
